---- MODULE Spec2Model ----
(***************************************************************************)
(* A model of main.py, the screen monitor: the multi-scale matcher, the   *)
(* target selector, the click decision with its per-target cooldown, and  *)
(* the polling loop with its exception handlers.                          *)
(*                                                                         *)
(* Confidences are integers in hundredths (0.70 is 70); times are whole    *)
(* seconds; an image is its shape <<height, width>>; a ratio is the exact  *)
(* fraction <<numerator, denominator>>.  What OpenCV, PyAutoGUI and the    *)
(* clock answer is an input: the correlation found at each scale, whether  *)
(* the screenshot decodes, what a call raises, how long a step takes.      *)
(***************************************************************************)
EXTENDS Integers, Sequences, FiniteSets, TLC

\* ------------------------------------------------------------ constants

\* MATCH_THRESHOLD = 0.70, in hundredths
MATCH_THRESHOLD == 70
LOOP_SLEEP_SEC == 30
CLICK_COOLDOWN_SEC == 15
\* np.linspace(0.8, 1.2, 11): scale number i (0-based) is (20 + i) / 25
NumScales == 11
\* best_conf = 0.0 before the first template is tried
InitBestConf == 0
\* _last_click_ts starts at 0.0 for every target
InitLastClick == 0

\* The keys of TARGETS in their insertion order, the order templates.items()
\* iterates in.
TARGETS == <<"I AM AVAILABLE", "OK">>
TargetSet == {TARGETS[k] : k \in 1..Len(TARGETS)}

\* Python's None, for a target name and for a tuple.
NoTarget == "None"
None == <<>>

Scales == 0..(NumScales - 1)

\* ------------------------------------------------------------ bounds

\* The loop starts no new cycle once the clock has passed MaxClock.
MaxClock == 70
\* A step (a capture, a sleep) takes up to MaxDelay seconds more than its
\* nominal time.
MaxDelay == 1
\* The latest 'now' a directly driven click decision is given.
MaxNow == 45

\* pc: where the program is.  clock: what time.time() answers.
\* _last_click_ts: the cooldown map.  clicks: the clicks performed, in order.
\* exit: how the process ended ("none": it runs).  raised: what the last step
\* raised.  caught: how many exceptions the except Exception clause caught.
\* call: the last click_target call of the cycle.  sel: what find_best_target
\* returned in the cycle.  ret: what find_and_click returned.  shot: what
\* cv2.imread made of the screenshot.  decisions: the 'now' of every
\* click_target call of the loop.  scr, tpl: the shapes of the screen and of
\* the templates.  res, found: the correlations given to the matcher and what
\* multi_scale_match returned for each template.
VARIABLES pc, clock, _last_click_ts, clicks, exit, raised, caught, call, sel,
          ret, shot, decisions, scr, tpl, res, found

vars == <<pc, clock, _last_click_ts, clicks, exit, raised, caught, call, sel,
          ret, shot, decisions, scr, tpl, res, found>>

\* ------------------------------------------------------------ matcher

\* cv2.resize(..., fx=scale, fy=scale): a side of d pixels becomes
\* round(d * scale) pixels.  d * (20 + i) / 25 is never half-way between two
\* integers, so rounding is floor(x + 1/2).
ResizedDim(d, i) == (2 * d * (20 + i) + 25) \div 50

\* if resized.shape[0] < tH or resized.shape[1] < tW: continue
TooSmall_HeightOnly(rH, rW, tH, tW) == rH < tH
TooSmall(rH, rW, tH, tW) == rH < tH \/ rW < tW

\* cv2.matchTemplate + cv2.minMaxLoc on a resized map of rH x rW: the best
\* correlation and where it is.  The input gives the correlation and which
\* corner of the search range the maximum sits in; maxLoc is (x, y).
MatchTemplate(rH, rW, tH, tW, in) ==
    <<in.val, IF in.corner = 1 THEN <<rW - tW, rH - tH>> ELSE <<0, 0>>>>

\* if found is None or maxVal > found[0]
KeepsScale(found0, maxVal) == found0 = None \/ maxVal > found0[1]

\* The body of the for loop of multi_scale_match from scale number i on.
RECURSIVE ScaleSweep(_, _, _, _, _)
ScaleSweep(i, found0, screen, target, in) ==
    IF i >= NumScales THEN found0
    ELSE LET rH == ResizedDim(screen[1], i)
             rW == ResizedDim(screen[2], i)
             r == <<screen[2], rW>>
         IN  IF TooSmall(rH, rW, target[1], target[2])
             THEN ScaleSweep(i + 1, found0, screen, target, in)
             ELSE LET m == MatchTemplate(rH, rW, target[1], target[2], in[i])
                  IN  IF KeepsScale(found0, m[1])
                      THEN ScaleSweep(i + 1, <<m[1], m[2], r>>, screen, target, in)
                      ELSE ScaleSweep(i + 1, found0, screen, target, in)

\* multi_scale_match: None, or (confidence, location, ratio)
multi_scale_match(screen, target, in) == ScaleSweep(0, None, screen, target, in)

\* ------------------------------------------------------------ selector

\* if maxVal > best_conf
Better_OrEqual(maxVal, best_conf) == maxVal >= best_conf
Better(maxVal, best_conf) == maxVal > best_conf

\* The start of find_best_target: (best_target, best_conf, best_coords)
NoBest_MinusOne == <<NoTarget, 0 - 100, None>>
NoBest == <<NoTarget, InitBestConf, None>>

\* The body of the for loop of find_best_target from template number k on.
RECURSIVE TemplateSweep(_, _, _, _, _)
TemplateSweep(k, best, screen, shapes, in) ==
    IF k > Len(TARGETS) THEN best
    ELSE LET name == TARGETS[k]
             f == multi_scale_match(screen, shapes[name], in[name])
         IN  IF f # None /\ Better(f[1], best[2])
             THEN TemplateSweep(k + 1, <<name, f[1], <<f[2], f[3], shapes[name]>>>>,
                                screen, shapes, in)
             ELSE TemplateSweep(k + 1, best, screen, shapes, in)

\* find_best_target: (best_target, best_conf, best_coords)
find_best_target(screen, shapes, in) == TemplateSweep(1, NoBest, screen, shapes, in)

\* ------------------------------------------------------------ click decision

\* if not best_target or best_conf < MATCH_THRESHOLD
BelowThreshold_NameOnly(best_target, best_conf) == best_target = NoTarget
BelowThreshold(best_target, best_conf) ==
    best_target = NoTarget \/ best_conf < MATCH_THRESHOLD

\* if (now - _last_click_ts.get(best_target, 0.0)) < CLICK_COOLDOWN_SEC
InCooldown_OffByOne(now, last) == (now - last) < CLICK_COOLDOWN_SEC - 1
InCooldown(now, last) == (now - last) < CLICK_COOLDOWN_SEC

\* The centre of the matched box in screen coordinates.  r is the exact
\* fraction, so int(v * r) is the floor of the quotient (all values are >= 0;
\* the source multiplies by the float r, which can land one below on an exact
\* quotient).
ClickPoint(best_coords) ==
    LET maxLoc == best_coords[1]
        r == best_coords[2]
        tH == best_coords[3][1]
        tW == best_coords[3][2]
        startX == (maxLoc[1] * r[1]) \div r[2]
        startY == (maxLoc[2] * r[1]) \div r[2]
        endX == ((maxLoc[1] + tW) * r[1]) \div r[2]
        endY == ((maxLoc[2] + tH) * r[1]) \div r[2]
    IN  <<startX + (endX - startX) \div 2, startY + (endY - startY) \div 2>>

\* What pyautogui.click can do: click and return; raise FailSafeException
\* before clicking; raise another exception before clicking; be interrupted
\* by the user before the click, or after it and before the next statement.
ClickOutcomes == {"ok", "failsafe", "error", "interrupt", "interrupt_after_click"}

\* click_target, given the time time.time() answers, the cooldown map and what
\* pyautogui.click does if it is reached.  branch: which return or call was
\* reached; ret: the value returned ("raise": none, an exception left the
\* function); ts: the cooldown map afterwards; new: the clicks performed;
\* raised: the exception that left the function.
click_target(best_target, best_conf, best_coords, now, ts, co) ==
    IF BelowThreshold(best_target, best_conf)
    THEN [branch |-> "no_button", ret |-> "False", ts |-> ts, new |-> <<>>,
          raised |-> "none"]
    ELSE IF InCooldown(now, ts[best_target])
    THEN [branch |-> "cooldown", ret |-> "False", ts |-> ts, new |-> <<>>,
          raised |-> "none"]
    ELSE LET c == [target |-> best_target, now |-> now,
                   point |-> ClickPoint(best_coords)]
         IN  CASE co = "ok" ->
                    [branch |-> "click", ret |-> "True",
                     ts |-> [ts EXCEPT ![best_target] = now], new |-> <<c>>,
                     raised |-> "none"]
               [] co = "interrupt_after_click" ->
                    [branch |-> "click", ret |-> "raise", ts |-> ts,
                     new |-> <<c>>, raised |-> "interrupt"]
               [] OTHER ->
                    [branch |-> "click", ret |-> "raise", ts |-> ts,
                     new |-> <<>>, raised |-> co]

\* What is remembered of one click_target call: its arguments, its branch and
\* result, and the cooldown map and the number of clicks before it.
CallRecord(best_target, best_conf, now, out, ts, n) ==
    [target |-> best_target, conf |-> best_conf, now |-> now,
     branch |-> out.branch, ret |-> out.ret, performed |-> out.new # <<>>,
     ts_before |-> ts, clicks_before |-> n]

NoCall ==
    [target |-> NoTarget, conf |-> 0, now |-> 0, branch |-> "none",
     ret |-> "none", performed |-> FALSE,
     ts_before |-> [t \in TargetSet |-> InitLastClick], clicks_before |-> 0]

\* ------------------------------------------------------------ inputs

\* Correlations, in hundredths.
Confs == {0 - 30, 0, 40, 70, 90}
BaseConfs == {0 - 30, 0, 70}
PeakScales == {0, 5, 10}

\* The correlations one template finds over the scale sweep: base everywhere
\* but at scale number peak, where it is top.
Profile(peak, top, base, corner) ==
    [i \in Scales |-> [val |-> IF i = peak THEN top ELSE base, corner |-> corner]]

Profiles(corner) ==
    {Profile(p, v, b, corner) : p \in PeakScales, v \in Confs, b \in BaseConfs}

\* Screen and template shapes <<height, width>>: a template that fits at every
\* scale, three that fit from some scale on, and two that never fit.
ScreenShape == <<10, 20>>
TemplateShapes == {<<8, 8>>, <<10, 22>>, <<12, 8>>, <<13, 8>>, <<8, 25>>}

\* ------------------------------------------------------------ start

\* The state after the module has run down to the main loop.
ProgramInit ==
    /\ _last_click_ts = [t \in TargetSet |-> InitLastClick]
    /\ clicks = <<>>
    /\ exit = "none"
    /\ raised = "none"
    /\ caught = 0
    /\ call = NoCall
    /\ sel = None
    /\ ret = "none"
    /\ decisions = <<>>
    /\ found = [t \in TargetSet |-> None]

\* ------------------------------------------------------------ main loop

\* The except clauses of the loop, for an exception raised in the try body:
\* where the loop goes, and how the process ended if it did.
Handler_NoCatchAll(e) ==
    CASE e = "interrupt" -> [pc |-> "exited", exit |-> "user"]
      [] e = "failsafe" -> [pc |-> "exited", exit |-> "failsafe"]
      [] OTHER -> [pc |-> "exited", exit |-> "uncaught"]
Handler(e) ==
    CASE e = "interrupt" -> [pc |-> "exited", exit |-> "user"]
      [] e = "failsafe" -> [pc |-> "exited", exit |-> "failsafe"]
      [] OTHER -> [pc |-> "error_sleep", exit |-> "none"]

\* An exception e leaves the try body.
Raise(e) ==
    /\ raised' = e
    /\ pc' = Handler(e).pc
    /\ exit' = Handler(e).exit
    /\ caught' = IF Handler(e).pc = "error_sleep" THEN caught + 1 ELSE caught

\* if screen is None: ... return False
AfterRead_NoCheck(img) == [pc |-> "match", ret |-> "none"]
AfterRead(img) ==
    IF img = "unreadable" THEN [pc |-> "sleep", ret |-> "False"]
    ELSE [pc |-> "match", ret |-> "none"]

\* screenshot_path = capture_screen(): the start of a cycle.
Capture ==
    /\ pc = "capture"
    /\ clock <= MaxClock
    /\ \E o \in {"ok", "error", "interrupt"}, d \in 0..MaxDelay :
         /\ clock' = clock + d
         /\ IF o = "ok"
            THEN /\ pc' = "read"
                 /\ raised' = "none"
                 /\ exit' = exit
                 /\ caught' = caught
            ELSE Raise(o)
    /\ call' = NoCall
    /\ sel' = None
    /\ ret' = "none"
    /\ shot' = "none"
    /\ UNCHANGED <<_last_click_ts, clicks, decisions, scr, tpl, res, found>>

\* find_and_click, its first statements: screen = cv2.imread(screenshot_path)
\* and the test of the result.
ReadScreenshot ==
    /\ pc = "read"
    /\ \E o \in {"ok", "unreadable", "error", "interrupt"} :
         IF o \in {"error", "interrupt"}
         THEN /\ Raise(o)
              /\ UNCHANGED <<shot, ret>>
         ELSE /\ shot' = o
              /\ pc' = AfterRead(o).pc
              /\ ret' = AfterRead(o).ret
              /\ raised' = "none"
              /\ exit' = exit
              /\ caught' = caught
    /\ UNCHANGED <<clock, _last_click_ts, clicks, call, sel, decisions, scr, tpl,
                   res, found>>

\* The correlations a cycle of the loop can see.
LoopInputs ==
    {[t \in TargetSet |-> Profile(5, v[t], 0, 0)] : v \in [TargetSet -> Confs]}

\* find_and_click, next: best_target, best_conf, best_coords =
\* find_best_target(screen), and the log line.
FindBest ==
    /\ pc = "match"
    /\ \E o \in {"ok", "error", "interrupt"} :
         IF o = "ok"
         THEN /\ \E in \in LoopInputs : sel' = find_best_target(scr, tpl, in)
              /\ pc' = "decide"
              /\ raised' = "none"
              /\ exit' = exit
              /\ caught' = caught
         ELSE /\ Raise(o)
              /\ sel' = sel
    /\ UNCHANGED <<clock, _last_click_ts, clicks, call, ret, shot, decisions, scr,
                   tpl, res, found>>

\* find_and_click, last: return click_target(best_target, best_conf,
\* best_coords), with now = time.time() the clock.
Decide ==
    /\ pc = "decide"
    /\ \E co \in ClickOutcomes :
         LET out == click_target(sel[1], sel[2], sel[3], clock, _last_click_ts, co)
         IN  /\ call' = CallRecord(sel[1], sel[2], clock, out, _last_click_ts,
                                   Len(clicks))
             /\ _last_click_ts' = out.ts
             /\ clicks' = clicks \o out.new
             /\ ret' = out.ret
             /\ IF out.raised = "none"
                THEN /\ pc' = "sleep"
                     /\ raised' = "none"
                     /\ exit' = exit
                     /\ caught' = caught
                ELSE Raise(out.raised)
    /\ decisions' = Append(decisions, clock)
    /\ UNCHANGED <<clock, sel, shot, scr, tpl, res, found>>

\* time.sleep(LOOP_SLEEP_SEC) in the try body: it sleeps its full time, or the
\* user interrupts it.
Sleep ==
    /\ pc = "sleep"
    /\ \E o \in {"ok", "interrupt"}, d \in 0..MaxDelay :
         IF o = "ok"
         THEN /\ clock' = clock + LOOP_SLEEP_SEC + d
              /\ pc' = "capture"
              /\ raised' = "none"
              /\ exit' = exit
              /\ caught' = caught
         ELSE /\ clock' = clock + d
              /\ Raise(o)
    /\ UNCHANGED <<_last_click_ts, clicks, call, sel, ret, shot, decisions, scr,
                   tpl, res, found>>

\* except Exception: logger.exception(...); time.sleep(LOOP_SLEEP_SEC).  This
\* sleep is in the handler, outside the try body: an interrupt here is caught
\* by no except clause and ends the process with a traceback.
ErrorSleep ==
    /\ pc = "error_sleep"
    /\ \E o \in {"ok", "interrupt"}, d \in 0..MaxDelay :
         IF o = "ok"
         THEN /\ clock' = clock + LOOP_SLEEP_SEC + d
              /\ pc' = "capture"
              /\ raised' = "none"
              /\ exit' = exit
              /\ caught' = caught
         ELSE /\ clock' = clock + d
              /\ raised' = o
              /\ pc' = "exited"
              /\ exit' = "uncaught"
              /\ caught' = caught
    /\ UNCHANGED <<_last_click_ts, clicks, call, sel, ret, shot, decisions, scr,
                   tpl, res, found>>

\* What time.time() can answer when the loop starts.
StartClocks == {0, 14, 15, 20}

\* The shapes the loop runs with: both templates fit the screen, or "OK"
\* never does.
LoopShapes ==
    {[t \in TargetSet |-> <<8, 8>>],
     [t \in TargetSet |-> IF t = "OK" THEN <<13, 8>> ELSE <<8, 8>>]}

Init ==
    /\ ProgramInit
    /\ clock \in StartClocks
    /\ pc = "capture"
    /\ shot = "none"
    /\ scr = ScreenShape
    /\ tpl \in LoopShapes
    /\ res = [t \in TargetSet |-> Profile(0, 0, 0, 0)]

Next == Capture \/ ReadScreenshot \/ FindBest \/ Decide \/ Sleep \/ ErrorSleep

Spec == Init /\ [][Next]_vars

\* ------------------------------------------------------------ the matcher and the selector alone

\* Any screen, templates and correlations of the input sets.
MatchInit ==
    /\ ProgramInit
    /\ clock = 0
    /\ pc = "input"
    /\ shot = "ok"
    /\ scr = ScreenShape
    /\ tpl \in [TargetSet -> TemplateShapes]
    /\ \E corner \in {0, 1} : res \in [TargetSet -> Profiles(corner)]

\* multi_scale_match on every template, and find_best_target.
ApplyMatch ==
    /\ pc = "input"
    /\ pc' = "output"
    /\ found' = [t \in TargetSet |-> multi_scale_match(scr, tpl[t], res[t])]
    /\ sel' = find_best_target(scr, tpl, res)
    /\ UNCHANGED <<clock, _last_click_ts, clicks, exit, raised, caught, call, ret,
                   shot, decisions, scr, tpl, res>>

SpecMatch == MatchInit /\ [][ApplyMatch]_vars

\* ------------------------------------------------------------ the click decision alone

\* The times a directly driven decision is given, in any order.
Nows == {0, 14, 15, 29, 30, MaxNow}

\* The confidences a directly driven decision is given: below, at and above
\* the threshold.
DecideConfs == {40, 70, 90}

\* The coordinates a directly driven decision is given with a target.
SampleCoords == <<<<2, 1>>, <<20, 22>>, <<8, 8>>>>

DecideInit ==
    /\ ProgramInit
    /\ clock = 0
    /\ pc = "decide"
    /\ shot = "ok"
    /\ scr = ScreenShape
    /\ tpl = [t \in TargetSet |-> <<8, 8>>]
    /\ res = [t \in TargetSet |-> Profile(0, 0, 0, 0)]

\* One call click_target(best_target, best_conf, best_coords) with any
\* arguments, at any time, the click raising or not.
DecideCall ==
    /\ pc = "decide"
    /\ \E t \in TargetSet \cup {NoTarget}, c \in DecideConfs, now \in Nows,
          co \in {"ok", "failsafe", "error"} :
         LET coords == IF t = NoTarget THEN None ELSE SampleCoords
             out == click_target(t, c, coords, now, _last_click_ts, co)
         IN  /\ call' = CallRecord(t, c, now, out, _last_click_ts, Len(clicks))
             /\ _last_click_ts' = out.ts
             /\ clicks' = clicks \o out.new
             /\ ret' = out.ret
             /\ raised' = out.raised
    /\ UNCHANGED <<pc, clock, exit, caught, sel, shot, decisions, scr, tpl, res,
                   found>>

SpecDecide == DecideInit /\ [][DecideCall]_vars

\* ------------------------------------------------------------ properties

\* A click_target call has been made and recorded.
Called == call.branch # "none"

\* call's target had not been clicked when the call was made.
NeverClickedBefore ==
    \A i \in 1..call.clicks_before : clicks[i].target # call.target

\* C1: click_target never reaches pyautogui.click when best_target is absent
\* or best_conf < 0.70: it returns False, no click is performed and the
\* cooldown map is as it was before the call.
C1_NoClickBelowThreshold ==
    (Called /\ (call.target = NoTarget \/ call.conf < MATCH_THRESHOLD))
        => /\ call.branch = "no_button"
           /\ call.ret = "False"
           /\ ~call.performed
           /\ _last_click_ts = call.ts_before
           /\ Len(clicks) = call.clicks_before

\* C1's case: a known target below the threshold is turned down, its cooldown
\* long over, after an earlier click on it.
C1_Witness ==
    /\ call.branch = "no_button"
    /\ call.target \in TargetSet
    /\ call.conf < MATCH_THRESHOLD
    /\ call.clicks_before > 0
    /\ call.now - call.ts_before[call.target] >= CLICK_COOLDOWN_SEC

\* C2: any two clicks performed on the same target have 'now' timestamps at
\* least 15 seconds apart, and a call with now - last_click[target] < 15
\* returns False without clicking.
C2_ClicksFifteenApart ==
    /\ \A i, j \in 1..Len(clicks) :
         (i < j /\ clicks[i].target = clicks[j].target)
             => clicks[j].now - clicks[i].now >= CLICK_COOLDOWN_SEC
    /\ (/\ Called
        /\ call.target # NoTarget
        /\ call.now - call.ts_before[call.target] < CLICK_COOLDOWN_SEC)
           => (~call.performed /\ call.ret = "False")

\* C2's case: a target clicked twice, and a qualifying call on it turned down
\* by the cooldown.
C2_Witness ==
    /\ \E i, j \in 1..Len(clicks) :
         i < j /\ clicks[i].target = clicks[j].target
    /\ call.branch = "cooldown"
    /\ call.ts_before[call.target] > 0

\* The templates multi_scale_match returned a match for, the highest
\* confidence among them, and the first registered target that has it.
Matched == {t \in TargetSet : found[t] # None}
TopConf == CHOOSE c \in {found[t][1] : t \in Matched} :
               \A t \in Matched : found[t][1] <= c
FirstTop ==
    TARGETS[CHOOSE k \in 1..Len(TARGETS) :
                /\ TARGETS[k] \in Matched
                /\ found[TARGETS[k]][1] = TopConf
                /\ \A m \in 1..(k - 1) :
                     TARGETS[m] \notin Matched \/ found[TARGETS[m]][1] # TopConf]

\* C3 as stated: find_best_target returns the target whose matcher confidence
\* is the highest over all templates, the first registered one on a tie.
C3_ReturnsHighest ==
    (pc = "output" /\ Matched # {})
        => (sel[1] = FirstTop /\ sel[2] = TopConf)

\* C3, amended: when the highest matcher confidence over all templates is
\* above 0, find_best_target returns the target that has it with that
\* confidence and its coordinates, the first registered one on a tie.
C3_ReturnsHighestAboveZero ==
    (pc = "output" /\ Matched # {} /\ TopConf > 0)
        => /\ sel[1] = FirstTop
           /\ sel[2] = TopConf
           /\ sel[3] = <<found[FirstTop][2], found[FirstTop][3], tpl[FirstTop]>>

\* C3's case: both templates match with the same confidence above 0, and the
\* first registered one is returned.
C3_Witness ==
    /\ pc = "output"
    /\ Matched = TargetSet
    /\ found[TARGETS[1]][1] = found[TARGETS[2]][1]
    /\ TopConf > 0
    /\ sel[1] = TARGETS[1]

\* C4: if every template's confidence is <= 0, or no template matched,
\* find_best_target returns (no target, 0.0, no coordinates); whenever it
\* returns a target, the confidence is > 0 and the coordinates are present.
C4_NeverSelectsNonPositive ==
    pc = "output"
        => /\ (\A t \in TargetSet : found[t] = None \/ found[t][1] <= 0)
                  => sel = <<NoTarget, 0, None>>
           /\ sel[1] # NoTarget => (sel[2] > 0 /\ sel[3] # None)

\* C4's case: a template matched with a zero correlation, another with a
\* negative one, and no target was returned.
C4_Witness ==
    /\ pc = "output"
    /\ \E t, u \in Matched : found[t][1] = 0 /\ found[u][1] < 0
    /\ sel[1] = NoTarget

\* The scales at which the resized screen is at least as large as the
\* template in both dimensions.
ValidScales(screen, target) ==
    {i \in Scales : /\ ResizedDim(screen[1], i) >= target[1]
                    /\ ResizedDim(screen[2], i) >= target[2]}

\* C5: multi_scale_match returns None exactly when no scale is valid, and
\* otherwise the (confidence, location, ratio) of a valid scale whose
\* correlation is the highest among the valid scales.
C5_BestValidScale ==
    pc = "output"
        => \A t \in TargetSet :
             LET V == ValidScales(scr, tpl[t])
             IN  /\ (found[t] = None) <=> (V = {})
                 /\ found[t] # None
                      => \E i \in V :
                           /\ found[t][1] = res[t][i].val
                           /\ found[t][2] =
                                MatchTemplate(ResizedDim(scr[1], i),
                                              ResizedDim(scr[2], i),
                                              tpl[t][1], tpl[t][2], res[t][i])[2]
                           /\ found[t][3] = <<scr[2], ResizedDim(scr[2], i)>>
                           /\ \A j \in V : res[t][j].val <= res[t][i].val

\* C5's case: one template is valid at some scales only, the correlation at
\* a scale it is too large for is higher than the one returned, and the other
\* template fits at no scale.
C5_Witness ==
    /\ pc = "output"
    /\ \E t \in TargetSet :
         /\ found[t] # None
         /\ \E j \in Scales \ ValidScales(scr, tpl[t]) :
              res[t][j].val > found[t][1]
    /\ \E t \in TargetSet : found[t] = None

\* C6: an exception other than an abort signal raised in a cycle is caught
\* (the process goes on), and the next cycle starts after the handler's
\* 30-second sleep.
C6_ErrorsNeverTerminate ==
    [][/\ (pc \in {"capture", "read", "match", "decide"} /\ raised' = "error")
            => (pc' = "error_sleep" /\ exit' = "none")
       /\ (pc = "error_sleep" /\ raised' # "interrupt")
            => /\ pc' = "capture"
               /\ exit' = "none"
               /\ clock' >= clock + LOOP_SLEEP_SEC]_vars

\* C6's case: a cycle runs after two exceptions were caught.
C6_Witness ==
    /\ caught >= 2
    /\ pc = "read"
    /\ exit = "none"

\* C7 as stated: wherever an abort signal arrives, the loop exits through its
\* abort handler and nothing runs afterwards.
C7_AbortExitsCleanly ==
    raised \in {"interrupt", "failsafe"}
        => (pc = "exited" /\ exit \in {"user", "failsafe"})

\* C8: when the screenshot cannot be decoded, find_and_click returns False
\* without matching or calling click_target, clicks and cooldowns are left
\* alone, and the next cycle starts after the normal 30-second sleep.
C8_UnreadableAbandonsCycle ==
    [][/\ (pc = "read" /\ shot' = "unreadable")
            => /\ pc' = "sleep"
               /\ ret' = "False"
               /\ sel' = None
               /\ call' = NoCall
               /\ UNCHANGED <<clicks, _last_click_ts, caught, exit>>
       /\ (pc = "sleep" /\ shot = "unreadable" /\ raised' # "interrupt")
            => /\ pc' = "capture"
               /\ clock' >= clock + LOOP_SLEEP_SEC
               /\ UNCHANGED <<clicks, _last_click_ts, sel, call, caught, exit>>]_vars

\* C8's case: after an earlier click, a cycle was abandoned on an unreadable
\* screenshot and the sleep after it is over.
C8_Witness ==
    /\ shot = "unreadable"
    /\ pc = "capture"
    /\ Len(clicks) > 0
    /\ ret = "False"

\* C9 as stated: a qualifying decision on a target never clicked before
\* reaches the click whatever 'now' is, a click that returns records 'now',
\* and a second decision at the same 'now' does not click.
C9_FirstDecisionClicks ==
    /\ (Called /\ call.target # NoTarget /\ call.conf >= MATCH_THRESHOLD
            /\ NeverClickedBefore)
           => /\ call.branch = "click"
              /\ call.ret = "True"
                   => (call.performed /\ _last_click_ts[call.target] = call.now)
    /\ (Called /\ call.target # NoTarget /\ ~NeverClickedBefore
            /\ call.ts_before[call.target] = call.now)
           => ~call.performed

\* C10 as stated: two click decisions of the loop are at least 30 s apart,
\* the loop never takes the "cooldown active" return, and every qualifying
\* match reaches the click.
C10_LoopNeverInCooldown ==
    /\ \A i \in 1..(Len(decisions) - 1) :
         decisions[i + 1] - decisions[i] >= LOOP_SLEEP_SEC
    /\ call.branch # "cooldown"
    /\ (Called /\ call.target # NoTarget /\ call.conf >= MATCH_THRESHOLD)
           => call.branch = "click"

====
